---- MODULE Spec2Model ----
(***************************************************************************)
(* A state-machine model of the two FLUSH+RELOAD programs of the           *)
(* repository:                                                             *)
(*   variant "A" = src/main.c      (retry loop only, prints every sample)  *)
(*   variant "B" = src/meltdown.c  (retry loop inside xbegin/xend, prints  *)
(*                                  the running minimum)                   *)
(* One action per statement / instruction of main().  The cache is the set *)
(* of probe slots whose first line is resident.  32-bit timing values are  *)
(* kept at full width as pairs <<high 16 bits, low 16 bits>>.              *)
(***************************************************************************)
EXTENDS Integers, Sequences, FiniteSets, TLC

\* ------------------------------------------------------------------ sizes
\* 256 slots: the bound of both `for` loops and the calloc element count.
NumSlots == 256
\* 4096: the slot stride (i * 4096) and the shift `shl rax, 0xc`.
PAGE_SIZE == 4096
\* shift count of `shl rax, 0xc`
ShiftBits == 12

\* Largest number of rolled-back (zero) reads explored per invocation.
MaxRetry == 2
\* Simulated cycle counts of a cache hit and of a cache miss.
HitCycles == 40
MissCycles == 400

Slots == 0 .. (NumSlots - 1)

\* Values of the byte at the target address that are explored.
\* (some_data is 0xff in both programs; the other values stand for the same
\* programs pointed at another byte.)
SecretBytes == {0, 65, 255}

\* ------------------------------------------------------------ 32-bit words
Half == 2^16

U32FromNat(n) == << (n \div Half) % Half, n % Half >>

U32ToNat(w) == w[1] * Half + w[2]

\* UINT32_MAX = 0xffffffff
UINT32_MAX == << Half - 1, Half - 1 >>

\* a < b on uint32_t
U32Lt(a, b) == (a[1] < b[1]) \/ (a[1] = b[1] /\ a[2] < b[2])

\* a + b modulo 2^32 (the time stamp counter's low word advancing)
U32Add(a, b) ==
    LET lo == a[2] + b[2]
    IN  << (a[1] + b[1] + (lo \div Half)) % Half, lo % Half >>

\* `sub eax, esi`: a - b modulo 2^32
U32Sub(a, b) ==
    LET lo     == a[2] - b[2]
        borrow == IF lo < 0 THEN 1 ELSE 0
    IN  << (a[1] - b[1] - borrow + 2 * Half) % Half, (lo + Half) % Half >>

\* printf("%02x", int): the int converted to unsigned, -1 prints as ffffffff.
HexArg(v) == IF v >= 0 THEN U32FromNat(v) ELSE UINT32_MAX

\* ------------------------------------------------------------ address space
\* The pointer calloc returns on success (any nonzero address; NULL is 0).
ProbeBase == 16 * PAGE_SIZE * NumSlots + 16
\* calloc(4096 * 256, sizeof(uint8_t))
ProbeSize == PAGE_SIZE * NumSlots
\* &some_data, a stack address outside the probe buffer
SecretAddr == 64 * PAGE_SIZE * NumSlots + 8

VARIABLES
    variant,      \* "A" = main.c, "B" = meltdown.c
    secret,       \* the byte stored in some_data
    rtm,          \* the host CPU implements xbegin/xend (varied for
                  \* meltdown.c only: main.c has no such instruction)
    reloadRbx,    \* build: the "b" operand is reloaded before each asm block
    timedViaRbx,  \* build: probe_array + i*4096 is computed from rbx
    pc,           \* position in main()
    status,       \* "running", "exit0", "exit1", "SIGSEGV", "SIGILL"
    reported,     \* perror has been called
    probe_array,  \* the pointer returned by calloc (0 = NULL)
    i,            \* loop counter of the current for loop
    cache,        \* slots whose first cache line is resident
    rax, rbx, rcx, zf,
    txActive,     \* a hardware transaction is active
    txRbx,        \* rbx as saved by xbegin
    time,         \* uint32_t time
    lowestTime,   \* uint32_t lowestTime
    lowestVal,    \* int lowestVal
    printed,      \* number of lines written by printf
    lastLine,     \* the last line written: <<index word, time word>>
    table,        \* synthetic timing table (decoder harness only)
    \* ---- observation (history) variables, not read by the program
    nFlush,       \* clflush instructions executed
    nTransient,   \* transient blocks entered
    nTimed,       \* timing blocks entered
    zeros,        \* shifts of this invocation whose result was zero
    retries,      \* taken `jz retry` branches of this invocation
    shifts,       \* `shl` executions of this invocation
    loads,        \* indexed loads completed by this invocation
    loadAddr,     \* address of the last indexed load
    loadOff,      \* rax at the last indexed load
    missedLoad,   \* some invocation ended without completing its load
    timedAddr,    \* address of the last timed read
    samples,      \* samples[k+1] = time measured for slot k
    aborted,      \* this iteration's transaction aborted
    xended,       \* this iteration executed xend
    faultAt       \* pc at which a fault was delivered ("" = none)

env   == << variant, secret, rtm, reloadRbx, timedViaRbx >>
regs  == << rax, rbx, rcx, zf >>
tx    == << txActive, txRbx >>
dec   == << lowestTime, lowestVal >>
out   == << printed, lastLine >>
obsTr == << zeros, retries, shifts, loads, loadAddr, loadOff, aborted, xended >>
obs   == << nFlush, nTransient, nTimed, timedAddr, samples, faultAt, missedLoad >>

vars == << variant, secret, rtm, reloadRbx, timedViaRbx, pc, status, reported,
           probe_array, i, cache, rax, rbx, rcx, zf, txActive, txRbx, time,
           lowestTime, lowestVal, printed, lastLine, table,
           nFlush, nTransient, nTimed, zeros, retries, shifts, loads,
           loadAddr, loadOff, missedLoad, timedAddr, samples, aborted, xended,
           faultAt >>

\* An address lies in the calloc'ed block (everything else the programs form
\* from a clobbered or NULL base is unmapped low memory).
InProbe(a) == probe_array # 0 /\ a >= probe_array /\ a + 8 <= probe_array + ProbeSize

\* The slot whose first cache line holds address a.
SlotOf(a) == (a - probe_array) \div PAGE_SIZE

\* Saturating increment of an observation counter.
Bump(n) == IF n < MaxRetry + 2 THEN n + 1 ELSE n

\* The process is killed by a signal raised at the current instruction.
Fault(sig) ==
    /\ pc' = "done"
    /\ status' = sig
    /\ faultAt' = pc

\* Possible cache contents when the program starts (unknown to the program).
InitCaches == { {}, Slots }

Init ==
    /\ variant \in {"A", "B"}
    /\ secret \in SecretBytes
    /\ rtm \in (IF variant = "B" THEN BOOLEAN ELSE {TRUE})
    /\ reloadRbx \in BOOLEAN
    /\ timedViaRbx \in BOOLEAN
    /\ pc = "calloc"
    /\ status = "running"
    /\ reported = FALSE
    /\ probe_array = 0
    /\ i = 0
    /\ cache \in InitCaches
    /\ rax = 0 /\ rbx = 0 /\ rcx = 0 /\ zf = FALSE
    /\ txActive = FALSE /\ txRbx = 0
    /\ time = U32FromNat(0)
    /\ lowestTime = U32FromNat(0)
    /\ lowestVal = 0
    /\ printed = 0
    /\ lastLine = << >>
    /\ table = << >>
    /\ nFlush = 0 /\ nTransient = 0 /\ nTimed = 0
    /\ zeros = 0 /\ retries = 0 /\ shifts = 0 /\ loads = 0
    /\ loadAddr = 0 /\ loadOff = 0 /\ timedAddr = 0
    /\ missedLoad = FALSE
    /\ samples = << >>
    /\ aborted = FALSE /\ xended = FALSE
    /\ faultAt = ""

\* ------------------------------------------------- allocation and flush
\* main.c:36-37 and meltdown.c:41-45.  calloc either returns the block or
\* NULL; only meltdown.c tests the result.
Calloc ==
    /\ pc = "calloc"
    /\ \E p \in {0, ProbeBase} :
         /\ probe_array' = p
         /\ IF variant = "B" /\ p = 0
            THEN /\ reported' = TRUE
                 /\ status' = "exit1"
                 /\ pc' = "done"
            ELSE /\ pc' = "flush"
                 /\ UNCHANGED << reported, status >>
    /\ i' = 0
    /\ UNCHANGED << env, cache, regs, tx, time, dec, out, table, obsTr, obs >>

\* Faulty variant: the flush loop strides by bytes instead of pages.
FlushOffset_ByteStride(k) == k

\* The byte stride of the flush loop, (i * 4096)  (main.c:41, meltdown.c:49)
FlushOffset(k) == k * PAGE_SIZE

\* clflush [probe_array + i*4096]  (main.c:40-42, meltdown.c:48-50).
\* clflush of an unmapped address raises a page fault like a byte load.
Clflush ==
    /\ pc = "flush"
    /\ i < NumSlots
    /\ nFlush' = nFlush + 1
    /\ LET a == probe_array + FlushOffset(i) IN
         IF InProbe(a)
         THEN /\ cache' = cache \ {SlotOf(a)}
              /\ i' = i + 1
              /\ UNCHANGED << pc, status, faultAt >>
         ELSE /\ Fault("SIGSEGV")
              /\ UNCHANGED << cache, i >>
    /\ UNCHANGED << env, reported, probe_array, regs, tx, time, dec, out,
                    table, obsTr, nTransient, nTimed, timedAddr, samples,
                    missedLoad >>

\* End of the flush loop.  The operands of the first asm block are in place:
\* rbx = probe_array, rcx = &some_data.
FlushDone ==
    /\ pc = "flush"
    /\ i = NumSlots
    /\ rbx' = probe_array
    /\ rcx' = SecretAddr
    /\ IF variant = "B"
       THEN pc' = "init_min" /\ i' = i
       ELSE pc' = "loop" /\ i' = 0
    /\ UNCHANGED << env, status, reported, probe_array, cache, rax, zf, tx,
                    time, dec, out, table, obsTr, obs >>

\* meltdown.c:52-53 and the `int i = 0` of line 55.
InitLowest ==
    /\ pc = "init_min"
    /\ lowestTime' = UINT32_MAX
    /\ lowestVal' = -1
    /\ i' = 0
    /\ pc' = "loop"
    /\ UNCHANGED << env, status, reported, probe_array, cache, regs, tx,
                    time, out, table, obsTr, obs >>

\* ------------------------------------------------------ the measuring loop
\* `i < 256` true: enter the body (main.c:44, meltdown.c:55).
LoopEnter ==
    /\ pc = "loop"
    /\ i < NumSlots
    /\ pc' = "asm_entry"
    /\ UNCHANGED << env, status, reported, probe_array, i, cache, regs, tx,
                    time, dec, out, table, obsTr, obs >>

\* `i < 256` false.  main.c returns 0; meltdown.c goes on to its printf.
LoopExit ==
    /\ pc = "loop"
    /\ i >= NumSlots
    /\ IF variant = "B"
       THEN pc' = "print" /\ status' = status
       ELSE pc' = "done" /\ status' = "exit0"
    /\ UNCHANGED << env, reported, probe_array, i, cache, regs, tx, time,
                    dec, out, table, obsTr, obs >>

\* Entry of the transient asm block: operands, mfence, lfence, xor rax, rax
\* (main.c:53-55, meltdown.c:64-67).  The compiler may take rbx to still
\* hold probe_array (it is declared an input) or load it again.
AsmEntry ==
    /\ pc = "asm_entry"
    /\ rbx' = IF reloadRbx THEN probe_array ELSE rbx
    /\ rcx' = SecretAddr
    /\ rax' = 0
    /\ zf' = TRUE
    /\ nTransient' = nTransient + 1
    /\ zeros' = 0 /\ retries' = 0 /\ shifts' = 0 /\ loads' = 0
    /\ aborted' = FALSE /\ xended' = FALSE
    /\ pc' = IF variant = "B" THEN "xbegin" ELSE "mov_al"
    /\ UNCHANGED << env, status, reported, probe_array, i, cache, tx, time,
                    dec, out, table, loadAddr, loadOff, nFlush, nTimed,
                    timedAddr, samples, faultAt, missedLoad >>

\* xbegin skip (meltdown.c:69).  Without RTM the opcode is undefined (#UD).
Xbegin ==
    /\ pc = "xbegin"
    /\ IF rtm
       THEN /\ txActive' = TRUE
            /\ txRbx' = rbx
            /\ pc' = "mov_al"
            /\ UNCHANGED << status, faultAt >>
       ELSE /\ Fault("SIGILL")
            /\ UNCHANGED tx
    /\ UNCHANGED << env, reported, probe_array, i, cache, regs, time, dec,
                    out, table, obsTr, nFlush, nTransient, nTimed, timedAddr,
                    samples, missedLoad >>

\* The byte read at [rcx]: the stored byte, or zero when the read is rolled
\* back (comment at main.c:51-52).  At most MaxRetry roll-backs are explored
\* per invocation.
ReadValues == {secret} \cup (IF zeros < MaxRetry THEN {0} ELSE {})

\* retry: mov al, BYTE PTR [%0]   (main.c:57-58, meltdown.c:72-73)
MovAl ==
    /\ pc = "mov_al"
    /\ rcx = SecretAddr
    /\ \E v \in ReadValues : rax' = (rax \div 256) * 256 + v
    /\ pc' = "shl"
    /\ UNCHANGED << env, status, reported, probe_array, i, cache, rbx, rcx,
                    zf, tx, time, dec, out, table, obsTr, obs >>

\* Faulty variant: the shift goes right (shr) instead of left.
ShlRax_Shr(x) == x \div (2 ^ ShiftBits)

\* The value of rax after `shl rax, 0xc`.  rax is 64 bits wide and holds at
\* most 0xff when the shift executes, so no bit is shifted out.
ShlRax(x) == x * (2 ^ ShiftBits)

\* shl rax, 0xc  (main.c:59, meltdown.c:74)
Shl ==
    /\ pc = "shl"
    /\ rax' = ShlRax(rax)
    /\ zf' = (rax' = 0)
    /\ shifts' = Bump(shifts)
    /\ zeros' = IF rax' = 0 THEN Bump(zeros) ELSE zeros
    /\ pc' = "jz"
    /\ UNCHANGED << env, status, reported, probe_array, i, cache, rbx, rcx,
                    tx, time, dec, out, table, retries, loads, loadAddr,
                    loadOff, aborted, xended, obs >>

\* Faulty variant: the conditional branch is missing, a zero value falls through.
Jz_FallThrough ==
    /\ pc = "jz"
    /\ pc' = "load" /\ retries' = retries
    /\ UNCHANGED << env, status, reported, probe_array, i, cache, regs, tx,
                    time, dec, out, table, zeros, shifts, loads, loadAddr,
                    loadOff, aborted, xended, obs >>

\* jz retry  (main.c:60, meltdown.c:75)
Jz ==
    /\ pc = "jz"
    /\ IF zf
       THEN pc' = "mov_al" /\ retries' = Bump(retries)
       ELSE pc' = "load" /\ retries' = retries
    /\ UNCHANGED << env, status, reported, probe_array, i, cache, regs, tx,
                    time, dec, out, table, zeros, shifts, loads, loadAddr,
                    loadOff, aborted, xended, obs >>

\* Abort of the active transaction: registers return to their values at
\* xbegin, eax receives the abort status, control continues at `skip`
\* (meltdown.c:69, 80).  Cache fills made inside the transaction stay.
AbortStatuses == {0, 2}

\* Faulty variant: the abort target label sits before xend instead of after it.
AbortTo_BeforeXend(st) ==
    /\ txActive' = FALSE
    /\ rbx' = txRbx
    /\ rax' = st
    /\ zf' = TRUE
    /\ aborted' = TRUE
    /\ pc' = "xend"

AbortTo(st) ==
    /\ txActive' = FALSE
    /\ rbx' = txRbx
    /\ rax' = st
    /\ zf' = TRUE
    /\ aborted' = TRUE
    /\ pc' = "timing"

\* mov %1, QWORD PTR [%1 + rax]  (main.c:61, meltdown.c:76): loads the
\* (zero-filled) quadword at rbx + rax into rbx and fills its cache line.
\* An unmapped address faults: SIGSEGV in main.c, an abort in meltdown.c.
IndexedLoad ==
    /\ pc = "load"
    /\ LET a == rbx + rax IN
         /\ loadAddr' = a
         /\ loadOff' = rax
         /\ IF InProbe(a)
            THEN /\ cache' = cache \cup {SlotOf(a)}
                 /\ rbx' = 0
                 /\ loads' = loads + 1
                 /\ pc' = IF variant = "B" THEN "xend" ELSE "timing"
                 /\ UNCHANGED << rax, zf, tx, aborted, status, faultAt >>
            ELSE IF txActive
            THEN /\ AbortTo(0)
                 /\ UNCHANGED << cache, loads, txRbx, status, faultAt >>
            ELSE /\ Fault("SIGSEGV")
                 /\ UNCHANGED << cache, loads, rax, rbx, zf, tx, aborted >>
    /\ UNCHANGED << env, reported, probe_array, i, rcx, time, dec, out, table,
                    zeros, retries, shifts, xended, nFlush, nTransient,
                    nTimed, timedAddr, samples, missedLoad >>

\* xend  (meltdown.c:79): commits; outside a transaction it raises #GP.
Xend ==
    /\ pc = "xend"
    /\ IF txActive
       THEN /\ txActive' = FALSE
            /\ xended' = TRUE
            /\ pc' = "timing"
            /\ UNCHANGED << status, faultAt >>
       ELSE /\ Fault("SIGSEGV")
            /\ UNCHANGED << txActive, xended >>
    /\ UNCHANGED << env, reported, probe_array, i, cache, regs, txRbx, time,
                    dec, out, table, zeros, retries, shifts, loads, loadAddr,
                    loadOff, aborted, obs >>

\* An asynchronous abort (interrupt, conflict, capacity) at any instruction
\* between xbegin and xend.
TxAbort ==
    /\ txActive
    /\ pc \in {"mov_al", "shl", "jz", "load", "xend"}
    /\ \E st \in AbortStatuses : AbortTo(st)
    /\ UNCHANGED << env, status, reported, probe_array, i, cache, rcx, txRbx,
                    time, dec, out, table, zeros, retries, shifts, loads,
                    loadAddr, loadOff, xended, obs >>

\* --------------------------------------------------------------- timing
\* Low word of the time stamp counter at the first rdtsc (one ordinary value
\* and one just below the 32-bit wrap).
TscStarts == { U32FromNat(1000), << Half - 1, Half - 36 >> }

\* Cycles a read takes, by residency of its line.
Latency(hit) == U32FromNat(IF hit THEN HitCycles ELSE MissCycles)

\* Faulty variant: the timed reads stride by bytes instead of pages.
TimedOffset_ByteStride(k) == k

\* The byte stride of the timed reads, (i * 4096)  (main.c:89, meltdown.c:108)
TimedOffset(k) == k * PAGE_SIZE

\* The address operand of the timing block, probe_array + (i * 4096)
\* (main.c:89, meltdown.c:108), formed from rbx in builds that keep
\* probe_array there.
TimedBase == IF timedViaRbx THEN rbx ELSE probe_array

\* The timing asm block (main.c:67-91, meltdown.c:86-110): rdtsc, the read
\* of [%1], rdtsc, sub eax, esi, mov %0, eax.  The read fills the line.
\* The observation variables of the finished invocation are cleared.
Timing ==
    /\ pc = "timing"
    /\ nTimed' = nTimed + 1
    /\ LET a == TimedBase + TimedOffset(i) IN
         /\ timedAddr' = a
         /\ IF InProbe(a)
            THEN /\ \E t0 \in TscStarts :
                      time' = U32Sub(U32Add(t0, Latency(SlotOf(a) \in cache)), t0)
                 /\ cache' = cache \cup {SlotOf(a)}
                 /\ rax' = U32ToNat(time')
                 /\ samples' = Append(samples, time')
                 /\ pc' = IF variant = "B" THEN "compare" ELSE "printf"
                 /\ UNCHANGED << status, faultAt >>
            ELSE /\ Fault("SIGSEGV")
                 /\ UNCHANGED << time, cache, rax, samples >>
    /\ zeros' = 0 /\ retries' = 0 /\ shifts' = 0 /\ loads' = 0
    /\ aborted' = FALSE /\ xended' = FALSE
    /\ missedLoad' = (missedLoad \/ loads = 0)
    /\ UNCHANGED << env, reported, probe_array, i, rbx, rcx, zf, tx, dec, out,
                    table, loadAddr, loadOff, nFlush, nTransient >>

\* printf("[0x%02x] %u\n", i, time); i++   (main.c:93, 44)
PrintSample ==
    /\ pc = "printf"
    /\ printed' = printed + 1
    /\ lastLine' = << HexArg(i), time >>
    /\ i' = i + 1
    /\ pc' = "loop"
    /\ UNCHANGED << env, status, reported, probe_array, cache, regs, tx, time,
                    dec, table, obsTr, obs >>

\* --------------------------------------------------------------- decoder
\* if (time < lowestTime) { lowestTime = time; lowestVal = i; }  i++
\* (meltdown.c:113-116, 55)
Compare ==
    /\ pc = "compare"
    /\ IF U32Lt(time, lowestTime)
       THEN lowestTime' = time /\ lowestVal' = i
       ELSE UNCHANGED dec
    /\ i' = i + 1
    /\ pc' = "loop"
    /\ UNCHANGED << env, status, reported, probe_array, cache, regs, tx, time,
                    out, table, obsTr, obs >>

\* printf("[0x%02x] %u\n", lowestVal, lowestTime); return 0;
\* (meltdown.c:119-121)
PrintLowest ==
    /\ pc = "print"
    /\ printed' = printed + 1
    /\ lastLine' = << HexArg(lowestVal), lowestTime >>
    /\ status' = "exit0"
    /\ pc' = "done"
    /\ UNCHANGED << env, reported, probe_array, i, cache, regs, tx, time, dec,
                    table, obsTr, obs >>

Next ==
    \/ Calloc
    \/ Clflush
    \/ FlushDone
    \/ InitLowest
    \/ LoopEnter
    \/ LoopExit
    \/ AsmEntry
    \/ Xbegin
    \/ MovAl
    \/ Shl
    \/ Jz
    \/ IndexedLoad
    \/ Xend
    \/ TxAbort
    \/ Timing
    \/ PrintSample
    \/ Compare
    \/ PrintLowest

Spec == Init /\ [][Next]_vars

\* main.c alone: the statements and instructions of Strategy A.
InitA == Init /\ variant = "A"

NextA ==
    \/ Calloc
    \/ Clflush
    \/ FlushDone
    \/ LoopEnter
    \/ LoopExit
    \/ AsmEntry
    \/ MovAl
    \/ Shl
    \/ Jz
    \/ IndexedLoad
    \/ Timing
    \/ PrintSample

\* The processor keeps executing instructions until the process ends; a
\* rolled-back read recurs at most MaxRetry times in a row (ReadValues).
LiveSpecA == InitA /\ [][NextA]_vars /\ WF_vars(NextA)

\* ------------------------------------------------------ decoder harness
\* The running-minimum code of meltdown.c (lines 52-53, 113-116, 119) fed
\* from a synthetic timing table instead of the timing block.
TableValues == { U32FromNat(0), U32FromNat(40), U32FromNat(400), UINT32_MAX }
TablePicks  == { 0, 65, 255 }

\* Tables with a background value and up to two distinguished slots.
Tables ==
    { [k \in Slots |-> IF k = p1 THEN v1 ELSE IF k = p2 THEN v2 ELSE b] :
        p1 \in TablePicks, p2 \in TablePicks,
        v1 \in TableValues, v2 \in TableValues, b \in TableValues }

DecInit ==
    /\ variant = "B"
    /\ secret = 255
    /\ rtm = TRUE /\ reloadRbx = TRUE /\ timedViaRbx = FALSE
    /\ pc = "init_min"
    /\ status = "running"
    /\ reported = FALSE
    /\ probe_array = ProbeBase
    /\ i = NumSlots
    /\ cache = {}
    /\ rax = 0 /\ rbx = 0 /\ rcx = 0 /\ zf = FALSE
    /\ txActive = FALSE /\ txRbx = 0
    /\ time = U32FromNat(0)
    /\ lowestTime = U32FromNat(0)
    /\ lowestVal = 0
    /\ printed = 0
    /\ lastLine = << >>
    /\ table \in Tables
    /\ nFlush = 0 /\ nTransient = 0 /\ nTimed = 0
    /\ zeros = 0 /\ retries = 0 /\ shifts = 0 /\ loads = 0
    /\ loadAddr = 0 /\ loadOff = 0 /\ timedAddr = 0
    /\ missedLoad = FALSE
    /\ samples = << >>
    /\ aborted = FALSE /\ xended = FALSE
    /\ faultAt = ""

\* The loop body up to the comparison, with `time` taken from the table.
TableSample ==
    /\ pc = "loop"
    /\ i < NumSlots
    /\ time' = table[i]
    /\ pc' = "compare"
    /\ UNCHANGED << env, status, reported, probe_array, i, cache, regs, tx,
                    dec, out, table, obsTr, obs >>

DecNext ==
    \/ InitLowest
    \/ TableSample
    \/ Compare
    \/ LoopExit
    \/ PrintLowest

DecSpec == DecInit /\ [][DecNext]_vars

\* ================================================================ claims
InBlock == pc \in {"mov_al", "shl", "jz", "load", "xend"}

\* The first byte of slot k of the allocated buffer.
SlotAddr(k) == probe_array + k * PAGE_SIZE

AllocOk == probe_array # 0 /\ pc # "calloc"

\* ---------------------------------------------------------------- C1
\* C1: in single-guess mode (meltdown.c), with a nonzero secret, RTM
\* present, the buffer allocated and every transient access completing its
\* indexed load, the finished run has printed exactly one line, whose index
\* is the secret and whose time is below the sample of every other slot.
C1_EndToEnd ==
    (variant = "B" /\ secret # 0 /\ rtm /\ AllocOk /\ ~missedLoad /\ pc = "done")
        => /\ status = "exit0"
           /\ printed = 1
           /\ lastLine[1] = U32FromNat(secret)
           /\ Len(samples) = NumSlots
           /\ \A k \in Slots \ {secret} : U32Lt(lastLine[2], samples[k + 1])

\* The same statement restricted to builds in which the write to rbx has no
\* consequence (rbx is reloaded, the timed address is not formed from it).
C1_EndToEnd_SafeBuild ==
    (reloadRbx /\ ~timedViaRbx) => C1_EndToEnd

\* ---------------------------------------------------------------- C2
\* C2: once the allocation has returned NULL, the process has reported the
\* error and ended with exit status 1, and no flush, transient access or
\* timing measurement has been executed, in either program.
C2_AllocFailure ==
    (probe_array = 0 /\ pc # "calloc")
        => /\ pc = "done" /\ status = "exit1" /\ reported
           /\ nFlush = 0 /\ nTransient = 0 /\ nTimed = 0

\* ---------------------------------------------------------------- C3
\* C3 (as claimed): immediately after every invocation that completed its
\* indexed load exactly the secret's slot is resident, and the buffer is
\* all-cold when each invocation begins.
C3_Original ==
    /\ (pc = "timing" /\ loads = 1) => cache = {secret}
    /\ (pc = "asm_entry") => cache = {}

\* C3 (amended): immediately after an invocation of iteration i that
\* completed its indexed load the resident slots are exactly the secret's
\* slot and the already timed slots 0..i-1; when invocation i begins the
\* slots 0..i-1 are resident and nothing beyond them except possibly the
\* secret's slot, so the buffer is all-cold only when the first one begins.
C3_Amended ==
    /\ (pc = "timing" /\ loads = 1) => cache = {secret} \cup (0 .. (i - 1))
    /\ (pc = "asm_entry")
          => /\ (0 .. (i - 1)) \subseteq cache
             /\ cache \subseteq {secret} \cup (0 .. (i - 1))
             /\ (i = 0 => cache = {})

C3_Witness ==
    /\ pc = "timing" /\ loads = 1 /\ i = 2
    /\ cache = {0, 1, secret}

\* ---------------------------------------------------------------- C4
\* The lowest index holding the minimum of the table.
FirstMinIndex(t) ==
    CHOOSE k \in Slots :
        /\ \A j \in Slots : ~U32Lt(t[j], t[k])
        /\ \A j \in 0 .. (k - 1) : t[j] # t[k]

\* C4: after the scan of a 256-entry table of 32-bit samples the reported
\* index is the lowest index holding the table's minimum and the reported
\* time is that minimum.
C4_Decoder ==
    (pc = "done" /\ table # << >>)
        => /\ lowestVal = FirstMinIndex(table)
           /\ lowestTime = table[FirstMinIndex(table)]
           /\ lastLine = << U32FromNat(FirstMinIndex(table)),
                            table[FirstMinIndex(table)] >>

\* The same statement for tables that hold a sample below UINT32_MAX.
C4_Decoder_BelowMax ==
    (\E k \in Slots : table # << >> /\ table[k] # UINT32_MAX) => C4_Decoder

\* ---------------------------------------------------------------- C5
\* C5: when the shifted value was zero N times before being nonzero, the
\* sequence has branched back N times, executed the shift N+1 times and
\* performs (at most) one indexed load, whose offset is secret * 4096.
C5_RetryCount ==
    /\ loads <= 1
    /\ (pc = "load" \/ loads = 1)
          => /\ zeros <= MaxRetry
             /\ retries = zeros
             /\ shifts = zeros + 1
    /\ (pc = "load") => rax = secret * PAGE_SIZE
    /\ (loads = 1) => loadOff = secret * PAGE_SIZE

C5_Witness ==
    /\ variant = "A" /\ pc = "timing" /\ loads = 1
    /\ zeros = MaxRetry /\ retries = MaxRetry /\ shifts = MaxRetry + 1

\* ---------------------------------------------------------------- C6
\* C6: in meltdown.c on a host with RTM, a transaction is active only
\* between xbegin and xend, xend is reached only inside an active
\* transaction, the block is left towards the timing block of the same
\* iteration with no transaction active and with xend executed exactly when
\* the transaction did not abort, and no fault is delivered from the block.
C6_Containment ==
    (variant = "B" /\ rtm)
        => /\ txActive => InBlock
           /\ (pc = "xend") => txActive
           /\ (pc = "timing")
                 => /\ ~txActive
                    /\ xended = ~aborted
                    /\ nTransient = i + 1 /\ nTimed = i
           /\ faultAt \notin {"xbegin", "mov_al", "shl", "jz", "load", "xend"}

C6_Witness ==
    /\ variant = "B" /\ rtm /\ pc = "timing" /\ aborted /\ loads = 1 /\ i = 1

\* ---------------------------------------------------------------- C7
\* C7: meltdown.c on a host without RTM ends before any flush, transient
\* access or timing step and never executes xbegin.
C7_FailFast ==
    (variant = "B" /\ ~rtm)
        => /\ nFlush = 0 /\ nTransient = 0 /\ nTimed = 0
           /\ pc # "xbegin"
           /\ status # "SIGILL"

\* ---------------------------------------------------------------- C8
\* C8 (as claimed): in main.c, for every secret byte, each invocation
\* eventually leaves the retry loop for the indexed load and the run
\* eventually ends.
C8_Original ==
    /\ (variant = "A" /\ pc = "mov_al") ~> (pc = "load")
    /\ (variant = "A" /\ AllocOk) ~> (pc = "done")

\* C8 (amended): the same for every secret byte other than 0x00.
C8_Amended ==
    /\ (variant = "A" /\ secret # 0 /\ pc = "mov_al") ~> (pc = "load")
    /\ (variant = "A" /\ secret # 0 /\ AllocOk) ~> (pc = "done")

C8_Witness ==
    /\ variant = "A" /\ secret # 0 /\ pc = "load"
    /\ retries = MaxRetry /\ i = 1

\* ---------------------------------------------------------------- C9
\* C9: when slot i is about to be timed after an invocation that completed
\* its indexed load, slots 0..i-1 have each been timed exactly once and
\* slot i not yet, and slot i is resident exactly when i is the secret; the
\* sample then taken is the hit latency exactly when i is the secret.
C9_Interleaved ==
    /\ (pc = "timing" /\ loads = 1 /\ TimedBase + TimedOffset(i) = SlotAddr(i))
          => /\ Len(samples) = i /\ nTimed = i
             /\ (i \in cache) = (i = secret)
    /\ (pc \in {"compare", "printf"} /\ ~missedLoad)
          => /\ Len(samples) = i + 1
             /\ (samples[i + 1] = Latency(TRUE)) = (i = secret)
             /\ (samples[i + 1] = Latency(FALSE)) = (i # secret)

C9_Witness ==
    /\ pc = "timing" /\ loads = 1 /\ TimedBase + TimedOffset(i) = SlotAddr(i)
    /\ i = secret /\ i \in cache /\ (0 .. (i - 1)) \subseteq cache /\ i > 0

\* ---------------------------------------------------------------- C10
\* C10: no instruction of the transient block changes rbx or rcx, every
\* indexed load reads probe_array + secret * 4096 and every timed read
\* reads probe_array + i * 4096.
C10_Frame ==
    [][ /\ InBlock => (rbx' = rbx /\ rcx' = rcx)
        /\ (pc = "load") => loadAddr' = probe_array + secret * PAGE_SIZE
        /\ (pc = "timing") => timedAddr' = probe_array + i * PAGE_SIZE ]_vars

====
